---- MODULE Spec2Model ----
(***************************************************************************)
(* LLMVRAMCalculator: the VRAM estimate of a transformer model.           *)
(*                                                                         *)
(* The program is a stateless Python library.  One call of a facade       *)
(* function (compute_sizes_exl2, compute_sizes_gguf) resolves the model's *)
(* descriptor with up to four HTTP requests (_model_config) and then      *)
(* computes three sizes from it.  The state of the model is the position  *)
(* of one call, its arguments, the descriptor resolved so far, the        *)
(* requests it has made, its local model_sz, what it printed and what it  *)
(* returned or raised.  The engine functions (_input_buffer,              *)
(* _compute_buffer, _kv_cache, _context_size, _model_size) are module     *)
(* level functions too and are modelled as calls of their own.            *)
(*                                                                         *)
(* Numbers.  Python's int is unbounded and its float is a binary64; the   *)
(* byte counts of a 7B model exceed 2^31.  Numbers are therefore modelled *)
(* as exact signed rationals over naturals of any length (limbs of base   *)
(* 10^4, least significant first).  Every float operation of the source   *)
(* is the corresponding rational operation; round(x, 2) is rounding to    *)
(* a multiple of 1/100, ties to even, which is what Python computes for a *)
(* float that is exactly representable.  The binary64 rounding error of   *)
(* the individual operations (below 2^-52 relative) is not modelled.      *)
(***************************************************************************)
EXTENDS Integers, Sequences, FiniteSets, TLC

VARIABLES pc, op, config, log, model_sz, printed, ret, val, exc

vars == <<pc, op, config, log, model_sz, printed, ret, val, exc>>

-----------------------------------------------------------------------------
(* Naturals of any length: a sequence of limbs, least significant first,   *)
(* without leading zero limbs; the empty sequence is 0.                    *)

Limb == 100 * 100

RECURSIVE NFromInt(_)
NFromInt(i) == IF i = 0 THEN << >> ELSE <<i % Limb>> \o NFromInt(i \div Limb)

RECURSIVE NNorm(_)
NNorm(a) ==
    IF a = << >> THEN << >>
    ELSE IF a[Len(a)] = 0 THEN NNorm(SubSeq(a, 1, Len(a) - 1))
    ELSE a

RECURSIVE NAddC(_, _, _)
NAddC(a, b, c) ==
    IF a = << >> /\ b = << >> THEN (IF c = 0 THEN << >> ELSE <<c>>)
    ELSE LET x == IF a = << >> THEN 0 ELSE Head(a)
             y == IF b = << >> THEN 0 ELSE Head(b)
             s == x + y + c
         IN  <<s % Limb>> \o NAddC(IF a = << >> THEN << >> ELSE Tail(a),
                                   IF b = << >> THEN << >> ELSE Tail(b),
                                   s \div Limb)

NAdd(a, b) == NAddC(a, b, 0)

(* a - b for a >= b *)
RECURSIVE NSubB(_, _, _)
NSubB(a, b, c) ==
    IF a = << >> THEN << >>
    ELSE LET y == IF b = << >> THEN 0 ELSE Head(b)
             s == Head(a) - y - c
         IN  <<IF s < 0 THEN s + Limb ELSE s>>
                 \o NSubB(Tail(a), IF b = << >> THEN << >> ELSE Tail(b),
                          IF s < 0 THEN 1 ELSE 0)

NSub(a, b) == NNorm(NSubB(a, b, 0))

(* -1, 0, 1 as a < b, a = b, a > b *)
RECURSIVE NCmpFrom(_, _, _)
NCmpFrom(a, b, i) ==
    IF i = 0 THEN 0
    ELSE IF a[i] < b[i] THEN -1
    ELSE IF a[i] > b[i] THEN 1
    ELSE NCmpFrom(a, b, i - 1)

NCmp(a, b) ==
    IF Len(a) < Len(b) THEN -1
    ELSE IF Len(a) > Len(b) THEN 1
    ELSE NCmpFrom(a, b, Len(a))

RECURSIVE NMulLimb(_, _, _)
NMulLimb(a, k, c) ==
    IF a = << >> THEN (IF c = 0 THEN << >> ELSE <<c>>)
    ELSE LET s == Head(a) * k + c
         IN  <<s % Limb>> \o NMulLimb(Tail(a), k, s \div Limb)

RECURSIVE NMul(_, _)
NMul(a, b) ==
    IF a = << >> \/ b = << >> THEN << >>
    ELSE LET rest == NMul(a, Tail(b))
         IN  NNorm(NAdd(NMulLimb(a, Head(b), 0),
                        IF rest = << >> THEN << >> ELSE <<0>> \o rest))

(* the largest k in lo..hi with k * b <= r, where lo * b <= r *)
RECURSIVE NDigit(_, _, _, _)
NDigit(r, b, lo, hi) ==
    IF lo = hi THEN lo
    ELSE LET mid == (lo + hi + 1) \div 2
         IN  IF NCmp(NMulLimb(b, mid, 0), r) <= 0
             THEN NDigit(r, b, mid, hi)
             ELSE NDigit(r, b, lo, mid - 1)

(* long division of the limbs i, i-1, .. 1 of a by b, r carried in *)
RECURSIVE NDivFrom(_, _, _, _)
NDivFrom(a, b, i, r) ==
    IF i = 0 THEN << << >>, r >>
    ELSE LET r1 == NNorm(<<a[i]>> \o r)
             k == NDigit(r1, b, 0, Limb - 1)
             r2 == NSub(r1, NNorm(NMulLimb(b, k, 0)))
             rest == NDivFrom(a, b, i - 1, r2)
         IN  <<rest[1] \o <<k>>, rest[2]>>

(* <<quotient, remainder>> of a by b > 0 *)
NDivMod(a, b) ==
    LET h == NDivFrom(a, b, Len(a), << >>)
    IN  <<NNorm(h[1]), h[2]>>

NIsEven(a) == a = << >> \/ a[1] % 2 = 0

-----------------------------------------------------------------------------
(* Signed rationals [neg, n, d] with d > 0; not reduced, so values are    *)
(* compared with REq and RLe, never with =.                                *)

R(neg, n, d) == [neg |-> neg /\ n # << >>, n |-> n, d |-> d]

(* the rational of a machine integer *)
I2R(i) == R(i < 0, NFromInt(IF i < 0 THEN -i ELSE i), <<1>>)

(* the rational i / j of two machine integers, j > 0 *)
Q(i, j) == R(i < 0, NFromInt(IF i < 0 THEN -i ELSE i), NFromInt(j))

RZero == I2R(0)

RIsZero(x) == x.n = << >>

RNeg(x) == R(~x.neg, x.n, x.d)

RAdd(x, y) ==
    LET a == NMul(x.n, y.d)
        b == NMul(y.n, x.d)
        d == NMul(x.d, y.d)
    IN  IF x.neg = y.neg THEN R(x.neg, NAdd(a, b), d)
        ELSE IF NCmp(a, b) >= 0 THEN R(x.neg, NSub(a, b), d)
        ELSE R(y.neg, NSub(b, a), d)

RSub(x, y) == RAdd(x, RNeg(y))

RMul(x, y) == R(x.neg # y.neg, NMul(x.n, y.n), NMul(x.d, y.d))

(* x / y for y # 0 *)
RDiv(x, y) == R(x.neg # y.neg, NMul(x.n, y.d), NMul(x.d, y.n))

RSign(x) == IF x.n = << >> THEN 0 ELSE IF x.neg THEN -1 ELSE 1

RLe(x, y) == RSign(RSub(x, y)) <= 0

REq(x, y) == RSign(RSub(x, y)) = 0

RAbs(x) == R(FALSE, x.n, x.d)

-----------------------------------------------------------------------------
(* round(x, 2): the nearest multiple of 1/100, a tie to the even one      *)

Round2(x) ==
    LET qr == NDivMod(NMul(x.n, <<100>>), x.d)
        c  == NCmp(NAdd(qr[2], qr[2]), x.d)
        up == c > 0 \/ (c = 0 /\ ~NIsEven(qr[1]))
    IN  R(x.neg, IF up THEN NAdd(qr[1], <<1>>) ELSE qr[1], <<100>>)

-----------------------------------------------------------------------------
(* The quantization table, bits per weight                                 *)

_GGUF_QUANTS ==
    [Q2_K   |-> Q(335, 100), Q3_K_S |-> Q(350, 100), Q3_K_M |-> Q(391, 100),
     Q3_K_L |-> Q(427, 100), Q4_0   |-> Q(455, 100), Q4_K_S |-> Q(458, 100),
     Q4_K_M |-> Q(485, 100), Q5_0   |-> Q(554, 100), Q5_K_S |-> Q(554, 100),
     Q5_K_M |-> Q(569, 100), Q6_K   |-> Q(659, 100), Q8_0   |-> Q(850, 100)]

(* a lookup that falls back on a scheme of the table *)
QuantDefaultQ4(quant_size) ==
    IF quant_size \in DOMAIN _GGUF_QUANTS THEN _GGUF_QUANTS[quant_size]
    ELSE _GGUF_QUANTS["Q4_0"]

(* _GGUF_QUANTS.get(quant_size, 0) *)
QuantGet(quant_size) ==
    IF quant_size \in DOMAIN _GGUF_QUANTS THEN _GGUF_QUANTS[quant_size]
    ELSE RZero

-----------------------------------------------------------------------------
(* What a function call ends in: a value or an exception, and the number  *)
(* of lines it printed.                                                    *)

Ok(v, prints) == [exc |-> "none", val |-> v, prints |-> prints]

Raise(e, prints) == [exc |-> e, val |-> RZero, prints |-> prints]

(* a lookup with a default, model_config.get(key, 0), never raises *)
HasDefault(model_config, key) == TRUE

(* model_config[key]: whether the key is there; the subscription raises   *)
(* KeyError when it is not                                                 *)

Has(model_config, key) == key \in DOMAIN model_config

(* model_config[key], an int; 0 stands for the value of a key that is not *)
(* there, which the source never gets to read                              *)
Item(model_config, key) ==
    IF key \in DOMAIN model_config THEN I2R(model_config[key]) ELSE RZero

(* _input_buffer(context, model_config, bsz) *)
_input_buffer(context, model_config, bsz) ==
    IF ~Has(model_config, "hidden_size") THEN Raise("KeyError", 0)
    ELSE LET inp_tokens  == I2R(bsz)
             inp_embd    == RMul(Item(model_config, "hidden_size"), I2R(bsz))
             inp_pos     == I2R(bsz)
             inp_KQ_mask == RMul(I2R(context), I2R(bsz))
             inp_K_shift == I2R(context)
             inp_sum     == I2R(bsz)
         IN  Ok(RAdd(RAdd(RAdd(RAdd(RAdd(inp_tokens, inp_embd), inp_pos),
                               inp_KQ_mask), inp_K_shift), inp_sum), 0)

(* a warning for the larger batch sizes only *)
WarnsAbove(bsz) == IF bsz > 512 THEN 1 ELSE 0

(* the lines _compute_buffer prints: its warning *)
Warns(bsz) == IF bsz # 512 THEN 1 ELSE 0

(* the formula with the context ratio inverted, 1024 / context *)
ComputeBufferInverted(context, model_config) ==
    RMul(RMul(RMul(RAdd(RMul(RDiv(I2R(1024), I2R(context)), I2R(2)),
                        Q(75, 100)),
                   Item(model_config, "num_attention_heads")),
              I2R(1024)), I2R(1024))

(* the formula of _compute_buffer *)
ComputeBufferValue(context, model_config) ==
    RMul(RMul(RMul(RAdd(RMul(RDiv(I2R(context), I2R(1024)), I2R(2)),
                        Q(75, 100)),
                   Item(model_config, "num_attention_heads")),
              I2R(1024)), I2R(1024))

(* _compute_buffer(context, model_config, bsz): the warning comes first *)
_compute_buffer(context, model_config, bsz) ==
    IF ~Has(model_config, "num_attention_heads")
    THEN Raise("KeyError", Warns(bsz))
    ELSE Ok(ComputeBufferValue(context, model_config), Warns(bsz))

(* divisions that do not raise on 0 *)
KvCacheRaisesNoZero(model_config) ==
    IF \E f \in {"num_attention_heads", "num_key_value_heads", "hidden_size",
                 "num_hidden_layers"} : ~Has(model_config, f)
    THEN "KeyError"
    ELSE "none"

(* the exception of _kv_cache: the lookups and the two divisions fail in  *)
(* the order the source evaluates them                                     *)
KvCacheRaises(model_config) ==
    IF ~Has(model_config, "num_attention_heads") THEN "KeyError"
    ELSE IF ~Has(model_config, "num_key_value_heads") THEN "KeyError"
    ELSE IF RIsZero(Item(model_config, "num_key_value_heads"))
    THEN "ZeroDivisionError"
    ELSE IF ~Has(model_config, "hidden_size") THEN "KeyError"
    ELSE IF RIsZero(Item(model_config, "num_attention_heads"))
    THEN "ZeroDivisionError"
    ELSE IF ~Has(model_config, "num_hidden_layers") THEN "KeyError"
    ELSE "none"

(* the formula with the head ratio multiplied in, not divided out *)
KvCacheWidened(context, model_config, cache_bit) ==
    LET n_gqa == RDiv(Item(model_config, "num_attention_heads"),
                      Item(model_config, "num_key_value_heads"))
        n_embd_gqa == RMul(Item(model_config, "hidden_size"), n_gqa)
        n_elements == RMul(n_embd_gqa,
                           RMul(Item(model_config, "num_hidden_layers"),
                                I2R(context)))
        size == RMul(I2R(2), n_elements)
    IN  RMul(size, RDiv(I2R(cache_bit), I2R(8)))

(* the formula of _kv_cache; n_gqa is a true division *)
KvCacheValue(context, model_config, cache_bit) ==
    LET n_gqa == RDiv(Item(model_config, "num_attention_heads"),
                      Item(model_config, "num_key_value_heads"))
        n_embd_gqa == RDiv(Item(model_config, "hidden_size"), n_gqa)
        n_elements == RMul(n_embd_gqa,
                           RMul(Item(model_config, "num_hidden_layers"),
                                I2R(context)))
        size == RMul(I2R(2), n_elements)
    IN  RMul(size, RDiv(I2R(cache_bit), I2R(8)))

(* _kv_cache(context, model_config, cache_bit) *)
_kv_cache(context, model_config, cache_bit) ==
    IF KvCacheRaises(model_config) # "none"
    THEN Raise(KvCacheRaises(model_config), 0)
    ELSE Ok(KvCacheValue(context, model_config, cache_bit), 0)

(* _context_size(context, model_config, bsz, cache_bit): the three terms  *)
(* are evaluated left to right, the first exception ends the call          *)
_context_size(context, model_config, bsz, cache_bit) ==
    LET ib == _input_buffer(context, model_config, bsz)
        kv == _kv_cache(context, model_config, cache_bit)
        cb == _compute_buffer(context, model_config, bsz)
    IN  IF ib.exc # "none" THEN ib
        ELSE IF kv.exc # "none" THEN Raise(kv.exc, ib.prints + kv.prints)
        ELSE IF cb.exc # "none"
        THEN Raise(cb.exc, ib.prints + kv.prints + cb.prints)
        ELSE Ok(Round2(RAdd(RAdd(ib.val, kv.val), cb.val)),
                ib.prints + kv.prints + cb.prints)

(* model_config["parameters"], a float or an int of any size *)
Parameters(model_config) ==
    IF "parameters" \in DOMAIN model_config THEN model_config["parameters"]
    ELSE RZero

(* the size without its round(., 2) *)
ModelSizeUnrounded(model_config, bpw) ==
    IF ~Has(model_config, "parameters") THEN Raise("KeyError", 0)
    ELSE Ok(RDiv(RMul(Parameters(model_config), bpw), I2R(8)), 0)

(* _model_size(model_config, bpw) *)
_model_size(model_config, bpw) ==
    IF ~Has(model_config, "parameters") THEN Raise("KeyError", 0)
    ELSE Ok(Round2(RDiv(RMul(Parameters(model_config), bpw), I2R(8))), 0)

-----------------------------------------------------------------------------
(* The inputs of the model                                                 *)

(* contexts 1, 4096, .. 4096 * MaxContextBlocks; key/value heads 8, ..   *)
(* 8 * MaxKvGroups; bits per weight 2.25, .. 2.25 * MaxBpwSteps; cache    *)
(* bits 4, .. 2^MaxCacheBitExp; batch sizes 256, .. 256 * MaxBatchBlocks  *)
MaxContextBlocks == 2
MaxKvGroups == 4
MaxBpwSteps == 2
MaxCacheBitExp == 4
MaxBatchBlocks == 3

(* hi * 10^6 + lo, for the counts that exceed a machine integer *)
Big(hi, lo) == R(FALSE, NAdd(NMul(NFromInt(hi), NFromInt(1000000)),
                             NFromInt(lo)), <<1>>)

Contexts == {1} \cup {4096 * k : k \in 1..MaxContextBlocks}

CacheBits == {2^k : k \in 2..MaxCacheBitExp}

BatchSizes == {256 * k : k \in 1..MaxBatchBlocks}

Bpws == {Q(225 * k, 100) : k \in 1..MaxBpwSteps}

QuantNames == {"", "Q4_K", "Q4_K_S", "Q8_0"}

Fields == {"hidden_size", "num_attention_heads", "num_key_value_heads",
           "num_hidden_layers"}

(* the config.json of the hub: a 7B model with 32 or 24 query heads and   *)
(* multi-head, grouped-query or ill-formed key/value head counts          *)
Arch(heads, kv_heads) ==
    [hidden_size |-> 4096, num_attention_heads |-> heads,
     num_key_value_heads |-> kv_heads, num_hidden_layers |-> 32]

Without(d, f) == [k \in DOMAIN d \ {f} |-> d[k]]

With(d, f, v) == [k \in DOMAIN d \cup {f} |-> IF k = f THEN v ELSE d[k]]

(* well-formed ones and ones with heads that do not divide; one field 0  *)
(* or negative; one field missing; a head count of 0 with a field missing *)
Descriptors ==
    {Arch(h, 8 * g) : h \in {24, 32}, g \in 1..MaxKvGroups}
    \cup {With(Arch(32, 32), f, v) : f \in Fields, v \in {0, -1}}
    \cup {Without(Arch(32, 32), f) : f \in Fields}
    \cup {Without(Arch(32, 0), "num_hidden_layers")}

(* metadata.total_size of an index file: the bytes of the fp16 weights *)
TotalSizes == {RZero, I2R(-2), Big(14483, 496960)}

(* safetensors.total of the model page: the parameter count *)
PageTotals == {RZero, Big(7000, 0)}

(* the parameter counts the engine is called with *)
ParameterCounts == {I2R(3), Q(3, 2), Big(7000, 0), Big(7241, 748480)}

-----------------------------------------------------------------------------
(* The state                                                               *)

NoValue == [def |-> FALSE, val |-> RZero]

Some(v) == [def |-> TRUE, val |-> v]

NoResult == [def |-> FALSE, model_size |-> RZero, context_size |-> RZero,
             total_size |-> RZero]

NoConfig == [k \in {} |-> 0]

Call(name, context, bsz, cache_bit, bpw, quant_size) ==
    [name |-> name, context |-> context, bsz |-> bsz, cache_bit |-> cache_bit,
     bpw |-> bpw, quant_size |-> quant_size]

Init ==
    /\ pc = "idle"
    /\ op = Call("none", 0, 0, 0, RZero, "")
    /\ config = NoConfig
    /\ log = << >>
    /\ model_sz = NoValue
    /\ printed = 0
    /\ ret = NoResult
    /\ val = NoValue
    /\ exc = "none"

-----------------------------------------------------------------------------
(* The facade: the call                                                    *)

batch_size == 512

default_cache_bit == 16

(* compute_sizes_exl2(hf_model, context, cache_bit, bpw) is called *)
CallExl2 ==
    /\ pc = "idle"
    /\ \E context \in Contexts, cache_bit \in CacheBits, bpw \in Bpws :
          op' = Call("compute_sizes_exl2", context, batch_size, cache_bit,
                     bpw, "")
    /\ pc' = "config"
    /\ UNCHANGED <<config, log, model_sz, printed, ret, val, exc>>

(* compute_sizes_gguf(hf_model, context, quant_size) is called *)
CallGguf ==
    /\ pc = "idle"
    /\ \E context \in Contexts, quant_size \in QuantNames :
          op' = Call("compute_sizes_gguf", context, batch_size,
                     default_cache_bit, RZero, quant_size)
    /\ pc' = "config"
    /\ UNCHANGED <<config, log, model_sz, printed, ret, val, exc>>

-----------------------------------------------------------------------------
(* _model_config: the four requests.  What the hub answers is the         *)
(* environment's choice.                                                   *)

Attempt(src, outcome) == [src |-> src, outcome |-> outcome]

(* a strategy that takes any size it reads *)
AnySize(model_size) == TRUE

(* `if not model_size`: a size of 0 is no size *)
SizeFound(model_size) == ~RIsZero(model_size)

(* config.json: no JSON (the request or .json() raises), or a descriptor *)
GetConfig ==
    /\ pc = "config"
    /\ \/ /\ pc' = "raised"
          /\ exc' = "JSONDecodeError"
          /\ log' = Append(log, Attempt("config", "raised"))
          /\ UNCHANGED config
       \/ \E d \in Descriptors :
             /\ config' = d
             /\ pc' = "safetensors"
             /\ log' = Append(log, Attempt("config", "ok"))
             /\ UNCHANGED exc
    /\ UNCHANGED <<op, model_sz, printed, ret, val>>

(* an index file: any exception and a size of 0 lead to the next strategy *)
GetIndex(src, next) ==
    /\ \/ /\ pc' = next
          /\ log' = Append(log, Attempt(src, "raised"))
          /\ UNCHANGED config
       \/ \E total_size \in TotalSizes :
             LET model_size == RDiv(total_size, I2R(2))
             IN  IF SizeFound(model_size)
                 THEN /\ config' = With(config, "parameters", model_size)
                      /\ pc' = "sizing"
                      /\ log' = Append(log, Attempt(src, "ok"))
                 ELSE /\ pc' = next
                      /\ log' = Append(log, Attempt(src, "zero"))
                      /\ UNCHANGED config
    /\ UNCHANGED <<op, model_sz, printed, ret, val, exc>>

GetSafetensorsIndex ==
    /\ pc = "safetensors"
    /\ GetIndex("safetensors", "pytorch")

GetPytorchIndex ==
    /\ pc = "pytorch"
    /\ GetIndex("pytorch", "page")

(* the model page: the request, a missing element or a missing key raise  *)
(* and are not caught; else either element gives safetensors.total        *)
GetModelPage ==
    /\ pc = "page"
    /\ \/ \E e \in {"ConnectionError", "KeyError", "AttributeError"} :
             /\ pc' = "raised"
             /\ exc' = e
             /\ log' = Append(log, Attempt("page", "raised"))
             /\ UNCHANGED config
       \/ \E model_size \in PageTotals :
             IF SizeFound(model_size)
             THEN /\ config' = With(config, "parameters", model_size)
                  /\ pc' = "sizing"
                  /\ log' = Append(log, Attempt("page", "ok"))
                  /\ UNCHANGED exc
             ELSE /\ pc' = "raised"
                  /\ exc' = "ValueError"
                  /\ log' = Append(log, Attempt("page", "zero"))
                  /\ UNCHANGED config
    /\ UNCHANGED <<op, model_sz, printed, ret, val>>

-----------------------------------------------------------------------------
(* The facade: the sizes.  A call is one step once the descriptor is     *)
(* there: model_sz, then context_sz, whose exception ends the call with   *)
(* model_sz computed and nothing returned, then the result.               *)

GiB == I2R(2^30)

(* a total rounded like its two terms *)
TotalRounded(model_sz_, context_sz) == Round2(RAdd(model_sz_, context_sz))

(* total_sz = (model_sz + context_sz) *)
Total(model_sz_, context_sz) == RAdd(model_sz_, context_sz)

Sizes(bpw, cache_bit) ==
    \E ms \in {_model_size(config, bpw)},
       cs \in {_context_size(op.context, config, batch_size, cache_bit)} :
    \E model_sz_ \in {RDiv(ms.val, GiB)}, context_sz \in {RDiv(cs.val, GiB)} :
    \E total_sz \in {Total(model_sz_, context_sz)} :
        /\ model_sz' = Some(model_sz_)
        /\ printed' = printed + cs.prints
        /\ IF cs.exc # "none"
           THEN /\ pc' = "raised"
                /\ exc' = cs.exc
                /\ UNCHANGED ret
           ELSE /\ pc' = "returned"
                /\ ret' = [def |-> TRUE, model_size |-> model_sz_,
                           context_size |-> context_sz,
                           total_size |-> total_sz]
                /\ UNCHANGED exc
        /\ UNCHANGED <<op, config, log, val>>

(* compute_sizes_exl2 after _model_config *)
Exl2Sizes ==
    /\ pc = "sizing"
    /\ op.name = "compute_sizes_exl2"
    /\ Sizes(op.bpw, op.cache_bit)

(* compute_sizes_gguf after _model_config *)
GgufSizes ==
    /\ pc = "sizing"
    /\ op.name = "compute_sizes_gguf"
    /\ Sizes(QuantGet(op.quant_size), default_cache_bit)

-----------------------------------------------------------------------------
(* The engine functions, called on their own.  A call is one step; the   *)
(* library keeps no state between calls, so one call from the initial     *)
(* state stands for every call.                                            *)

Finish(name, context, bsz, cache_bit, bpw, model_config, out) ==
    /\ op' = Call(name, context, bsz, cache_bit, bpw, "")
    /\ config' = model_config
    /\ printed' = printed + out.prints
    /\ IF out.exc # "none"
       THEN /\ pc' = "raised"
            /\ exc' = out.exc
            /\ UNCHANGED val
       ELSE /\ pc' = "returned"
            /\ val' = Some(out.val)
            /\ UNCHANGED exc
    /\ UNCHANGED <<log, model_sz, ret>>

CallInputBuffer ==
    /\ pc = "idle"
    /\ \E context \in Contexts, d \in Descriptors, bsz \in BatchSizes :
       \E out \in {_input_buffer(context, d, bsz)} :
          Finish("_input_buffer", context, bsz, 0, RZero, d, out)

CallComputeBuffer ==
    /\ pc = "idle"
    /\ \E context \in Contexts, d \in Descriptors, bsz \in BatchSizes :
       \E out \in {_compute_buffer(context, d, bsz)} :
          Finish("_compute_buffer", context, bsz, 0, RZero, d, out)

CallKvCache ==
    /\ pc = "idle"
    /\ \E context \in Contexts, d \in Descriptors, cache_bit \in CacheBits :
       \E out \in {_kv_cache(context, d, cache_bit)} :
          Finish("_kv_cache", context, 0, cache_bit, RZero, d, out)

CallContextSize ==
    /\ pc = "idle"
    /\ \E context \in Contexts, d \in Descriptors, bsz \in BatchSizes,
       cache_bit \in CacheBits :
       \E out \in {_context_size(context, d, bsz, cache_bit)} :
          Finish("_context_size", context, bsz, cache_bit, RZero, d, out)

CallModelSize ==
    /\ pc = "idle"
    /\ \E d \in {Arch(32, 32)} \cup
             {With(Arch(32, 32), "parameters", p) : p \in ParameterCounts},
       bpw \in Bpws \cup {_GGUF_QUANTS[q] : q \in DOMAIN _GGUF_QUANTS} :
       \E out \in {_model_size(d, bpw)} :
          Finish("_model_size", 0, 0, 0, bpw, d, out)

-----------------------------------------------------------------------------

Next ==
    \/ CallExl2
    \/ CallGguf
    \/ GetConfig
    \/ GetSafetensorsIndex
    \/ GetPytorchIndex
    \/ GetModelPage
    \/ Exl2Sizes
    \/ GgufSizes
    \/ CallInputBuffer
    \/ CallComputeBuffer
    \/ CallKvCache
    \/ CallContextSize
    \/ CallModelSize

Spec == Init /\ [][Next]_vars

-----------------------------------------------------------------------------
(* The states the properties speak of                                      *)

Facade == {"compute_sizes_exl2", "compute_sizes_gguf"}

Done == pc \in {"returned", "raised"}

(* _model_config has returned *)
Resolved == op.name \in Facade /\ "parameters" \in DOMAIN config

(* a facade call that came to its sizes: it returned or raised in them *)
Sized == Resolved /\ Done

Complete(d) == Fields \subseteq DOMAIN d

(* the descriptor's invariant: positive counts, the query heads a         *)
(* multiple of the key/value heads                                         *)
WellFormed(d) ==
    /\ Complete(d)
    /\ \A f \in Fields : d[f] > 0
    /\ d["num_attention_heads"] % d["num_key_value_heads"] = 0

(* a complete descriptor that breaks the invariant *)
InvalidValue(d) == Complete(d) /\ ~WellFormed(d)

ZeroHeads(d) ==
    d["num_attention_heads"] = 0 \/ d["num_key_value_heads"] = 0

Bytes(gib) == RMul(gib, GiB)

Within(x, y, eps) == RLe(RAbs(RSub(x, y)), eps)

(* x is a whole number of hundredths *)
IsHundredths(x) == NDivMod(NMul(x.n, <<100>>), x.d)[2] = << >>

(* x is y to two decimal places *)
Approx(x, hundredths) == REq(Round2(x), Q(hundredths, 100))

-----------------------------------------------------------------------------
(* C1: every result a facade call returns has total_size equal to the sum *)
(* of the model_size and the context_size of the same result, exactly.    *)
C1_TotalIsSum ==
    (op.name \in Facade /\ pc = "returned") =>
        /\ ret.def
        /\ REq(ret.total_size, RAdd(ret.model_size, ret.context_size))

C1_Witness ==
    /\ op.name = "compute_sizes_gguf"
    /\ pc = "returned"
    /\ WellFormed(config)
    /\ ~RIsZero(ret.model_size)
    /\ ~RIsZero(ret.context_size)

(* C2: compute_sizes_gguf with a scheme name that is not in the table,    *)
(* on a descriptor the sizes can be computed from, returns: model_size is *)
(* 0, context_size is the context size for 16 cache bits and batch size   *)
(* 512, and total_size is context_size.                                    *)
C2_UnknownQuant ==
    (/\ op.name = "compute_sizes_gguf"
     /\ op.quant_size \notin DOMAIN _GGUF_QUANTS
     /\ Sized
     /\ Complete(config)
     /\ ~ZeroHeads(config)) =>
        /\ pc = "returned"
        /\ exc = "none"
        /\ ret.def
        /\ RIsZero(ret.model_size)
        /\ REq(Bytes(ret.context_size),
               _context_size(op.context, config, 512, 16).val)
        /\ REq(ret.total_size, ret.context_size)

C2_Witness ==
    /\ op.name = "compute_sizes_gguf"
    /\ op.quant_size = ""
    /\ pc = "returned"
    /\ WellFormed(config)
    /\ ~RIsZero(ret.total_size)

C4_MissingFieldRaises ==
    (Sized /\ ~Complete(config)) =>
        /\ pc = "raised"
        /\ exc \in {"KeyError", "ZeroDivisionError"}
        /\ (exc = "ZeroDivisionError" =>
               /\ "num_key_value_heads" \in DOMAIN config
               /\ config["num_key_value_heads"] = 0)
        /\ ~ret.def
        /\ model_sz.def

C4_Witness ==
    /\ Sized
    /\ "num_hidden_layers" \notin DOMAIN config
    /\ pc = "raised"
    /\ exc = "KeyError"
    /\ model_sz.def
    /\ ~RIsZero(model_sz.val)

(* C5: _compute_buffer prints its warning once when bsz is not 512 and   *)
(* not at all when it is, and ends as it does for bsz = 512, with the     *)
(* same value; a _context_size that returns has printed the one warning   *)
(* of its _compute_buffer; the facade, whose batch size is 512, prints    *)
(* nothing.                                                                *)
C5_BatchSizeWarning ==
    /\ (op.name = "_compute_buffer" /\ Done) =>
           /\ printed = (IF op.bsz # 512 THEN 1 ELSE 0)
           /\ \E at512 \in {_compute_buffer(op.context, config, 512)} :
                 /\ exc = at512.exc
                 /\ pc = "returned" => REq(val.val, at512.val)
    /\ (op.name = "_context_size" /\ pc = "returned") =>
           printed = (IF op.bsz # 512 THEN 1 ELSE 0)
    /\ (op.name \in Facade /\ Done) => printed = 0

C5_Witness ==
    /\ op.name = "_compute_buffer"
    /\ pc = "returned"
    /\ op.bsz = 768
    /\ printed = 1
    /\ ~RIsZero(val.val)

(* the sizes of the stated scenario and of the run recorded in example.py *)
Scenario(kv_heads, parameters) ==
    /\ op.name = "compute_sizes_exl2"
    /\ pc = "returned"
    /\ Complete(config)
    /\ [f \in Fields |-> config[f]] = Arch(32, kv_heads)
    /\ REq(config["parameters"], parameters)
    /\ op.context = 8192
    /\ op.cache_bit = 16
    /\ REq(op.bpw, Q(450, 100))

(* C6 as claimed: 32 key/value heads and 7,000,000,000 parameters at      *)
(* context 8192, 4.5 bits per weight, 16 cache bits give 3.79, 1.53 and   *)
(* 5.32 GiB.                                                               *)
C6_ScenarioAsClaimed ==
    Scenario(32, Big(7000, 0)) =>
        /\ Approx(ret.model_size, 379)
        /\ Approx(ret.context_size, 153)
        /\ Approx(ret.total_size, 532)

(* C6 as the code has it: that descriptor gives 3,937,500,000 bytes of    *)
(* weights (parameters * 4.5 / 8) and 4,863,305,216 bytes of context      *)
(* (6,301,184 + 4,294,967,296 + 562,036,736), that is 3.67, 4.53 and 8.20 *)
(* GiB; 3.79, 1.53 and 5.32 GiB are the sizes of the model of example.py, *)
(* with 8 key/value heads and 7,241,748,480 parameters.                    *)
C6_ScenarioSizes ==
    /\ Scenario(32, Big(7000, 0)) =>
           /\ REq(Bytes(ret.model_size), Big(3937, 500000))
           /\ REq(Bytes(ret.context_size), Big(4863, 305216))
           /\ Approx(ret.model_size, 367)
           /\ Approx(ret.context_size, 453)
           /\ Approx(ret.total_size, 820)
    /\ Scenario(8, Big(7241, 748480)) =>
           /\ REq(Bytes(ret.model_size), Big(4073, 483520))
           /\ REq(Bytes(ret.context_size), Big(1642, 79744))
           /\ Approx(ret.model_size, 379)
           /\ Approx(ret.context_size, 153)
           /\ Approx(ret.total_size, 532)

C6_Witness == Scenario(32, Big(7000, 0)) /\ ret.def

(* C7: for a well-formed descriptor, a batch size and a cache bit-width,  *)
(* the context size a call returns is at least the context size of every  *)
(* shorter context and at most that of every longer one.                   *)
C7_ContextMonotone ==
    (op.name = "_context_size" /\ pc = "returned" /\ WellFormed(config)) =>
        \A c \in Contexts :
            \E other \in {_context_size(c, config, op.bsz, op.cache_bit)} :
                /\ other.exc = "none"
                /\ c <= op.context => RLe(other.val, val.val)
                /\ c >= op.context => RLe(val.val, other.val)

C7_Witness ==
    /\ op.name = "_context_size"
    /\ pc = "returned"
    /\ WellFormed(config)
    /\ op.context = 4096
    /\ config["num_key_value_heads"] < config["num_attention_heads"]

(* C8: for a positive parameter count and positive bits per weight the   *)
(* model size is a whole number of hundredths within 0.005 of             *)
(* parameters * bpw / 8, and the model size for twice the bits per weight *)
(* is within 0.01 of twice it.                                             *)
C8_ModelSizeLinear ==
    (/\ op.name = "_model_size"
     /\ pc = "returned"
     /\ RSign(config["parameters"]) > 0
     /\ RSign(op.bpw) > 0) =>
        \E exact \in {RDiv(RMul(config["parameters"], op.bpw), I2R(8))},
           twice \in {_model_size(config, RMul(I2R(2), op.bpw))} :
            /\ IsHundredths(val.val)
            /\ Within(val.val, exact, Q(5, 1000))
            /\ twice.exc = "none"
            /\ Within(twice.val, RMul(I2R(2), val.val), Q(1, 100))

C8_Witness ==
    /\ op.name = "_model_size"
    /\ pc = "returned"
    /\ REq(config["parameters"], I2R(3))
    /\ REq(op.bpw, Q(225, 100))
    /\ REq(val.val, Q(84, 100))

(* C9: for query heads that are a positive multiple of the key/value      *)
(* heads, _kv_cache returns 2 * (hidden_size / (heads / kv_heads)) *      *)
(* num_hidden_layers * context * (cache_bit / 8), which for equal head    *)
(* counts is 2 * hidden_size * num_hidden_layers * context * cache_bit/8. *)
C9_KvCacheFormula ==
    (/\ op.name = "_kv_cache"
     /\ pc = "returned"
     /\ Complete(config)
     /\ config["num_key_value_heads"] > 0
     /\ config["num_attention_heads"] > 0
     /\ config["num_attention_heads"] % config["num_key_value_heads"] = 0) =>
        \E ratio \in {config["num_attention_heads"]
                          \div config["num_key_value_heads"]},
           plain \in {RMul(RMul(I2R(2 * config["hidden_size"]),
                                I2R(config["num_hidden_layers"] * op.context)),
                           Q(op.cache_bit, 8))} :
            /\ REq(RMul(val.val, I2R(ratio)), plain)
            /\ ratio = 1 => REq(val.val, plain)

C9_Witness ==
    /\ op.name = "_kv_cache"
    /\ pc = "returned"
    /\ WellFormed(config)
    /\ config["num_attention_heads"] = 24
    /\ config["num_key_value_heads"] = 8
    /\ op.cache_bit = 4

(* C10: _model_config asks for config.json, then for the safetensors      *)
(* index, then for the pytorch index, then for the model page; it asks    *)
(* for the next only when the one before raised or gave a size of 0; the  *)
(* first size that is not 0 ends the requests and is the descriptor's     *)
(* `parameters`; the call gets to its sizes only with `parameters` set    *)
(* and not 0, and ends in an exception otherwise.                          *)
Order == <<"config", "safetensors", "pytorch", "page">>

C10_ResolverOrder ==
    op.name \in Facade =>
        /\ Len(log) <= Len(Order)
        /\ \A i \in 1..Len(log) : log[i].src = Order[i]
        /\ \A i \in 1..Len(log) :
              /\ (i < Len(log) /\ i > 1) => log[i].outcome \in {"raised", "zero"}
              /\ (i < Len(log) /\ i = 1) => log[i].outcome = "ok"
              /\ (i > 1 /\ log[i].outcome = "ok") => i = Len(log) /\ Resolved
        /\ Resolved =>
              /\ log[Len(log)].outcome = "ok"
              /\ ~RIsZero(config["parameters"])
              /\ pc \in {"sizing", "returned", "raised"}
        /\ pc \in {"sizing", "returned"} => Resolved
        /\ (pc = "raised" /\ ~Resolved) =>
              /\ exc # "none"
              /\ ~ret.def
              /\ log[Len(log)].outcome \in {"raised", "zero"}
              /\ log[Len(log)].src \in {"config", "page"}

C10_Witness ==
    /\ Resolved
    /\ pc = "sizing"
    /\ Len(log) = 4
    /\ log[2].outcome = "zero"
    /\ log[3].outcome = "raised"
    /\ log[4].outcome = "ok"

====
